---- MODULE Spec2Model ----
(***************************************************************************)
(* Model of feishu_download_files.py: the folder walk of main and          *)
(* process_file, the paging loop of list_files_in_folder, the poll loop of *)
(* query_export_task and the file-name computation of process_file.        *)
(*                                                                         *)
(* Python strings are sequences of one-character strings; None is a value  *)
(* that is no string.                                                      *)
(***************************************************************************)
EXTENDS Integers, Sequences, FiniteSets, TLC

VARIABLES
    pc,          \* main: "list", "loop", "done", "list_failed", "crashed"
    frames,      \* the active `for` loops: main's first, one per entered folder
    cur,         \* the activation of process_file downloading a file, or Idle
    calls,       \* requests issued by the running/last process_file call
    printed,     \* messages printed by the running/last process_file call
    processed,   \* tokens process_file was called with, in call order
    listedFiles, \* tokens of the non-folder items the listings returned
    rootFiles,   \* tokens of the listing main received
    dirs,        \* directories created by mkdir
    nextTok,     \* the next unused remote token
    lf,          \* the activation of list_files_in_folder
    pages,       \* the remote folder as the server pages it
    q            \* the activation of query_export_task, with its clock

vars == <<pc, frames, cur, calls, printed, processed, listedFiles, rootFiles,
          dirs, nextTok, lf, pages, q>>

walkVars == <<pc, frames, cur, calls, printed, processed, listedFiles,
              rootFiles, dirs, nextTok>>

----------------------------------------------------------------------------
(* Strings *)

None == <<"None">>

PrintableAscii ==
    <<" ", "!", "\"", "#", "$", "%", "&", "'", "(", ")", "*", "+", ",", "-", ".", "/">>
    \o <<"0", "1", "2", "3", "4", "5", "6", "7", "8", "9", ":", ";", "<", "=", ">", "?">>
    \o <<"@", "A", "B", "C", "D", "E", "F", "G", "H", "I", "J", "K", "L", "M", "N", "O">>
    \o <<"P", "Q", "R", "S", "T", "U", "V", "W", "X", "Y", "Z", "[", "\\", "]", "^", "_">>
    \o <<"a", "b", "c", "d", "e", "f", "g", "h", "i", "j", "k", "l", "m", "n", "o">>
    \o <<"p", "q", "r", "s", "t", "u", "v", "w", "x", "y", "z", "{", "|", "}", "~">>

\* ord(c) of the characters the model uses: the tab and printable ASCII
\* (the grave accent, 96, left out).
ord(c) ==
    IF c = "\t" THEN 9
    ELSE LET i == CHOOSE k \in 1..Len(PrintableAscii) : PrintableAscii[k] = c
         IN  IF i <= 64 THEN 31 + i ELSE 32 + i

chr(n) == IF n <= 95 THEN PrintableAscii[n - 31] ELSE PrintableAscii[n - 32]

\* str.lower() on one character.
LowerChar(c) == IF ord(c) >= 65 /\ ord(c) <= 90 THEN chr(ord(c) + 32) ELSE c

\* str.lower()
lower(s) == [i \in 1..Len(s) |-> LowerChar(s[i])]

\* str.endswith(e)
endswith(s, e) ==
    /\ Len(e) <= Len(s)
    /\ SubSeq(s, Len(s) - Len(e) + 1, Len(s)) = e

\* join of the characters c of s with ord(c) >= 32
RECURSIVE drop_control(_)
drop_control(s) ==
    IF s = <<>> THEN <<>>
    ELSE IF ord(Head(s)) >= 32 THEN <<Head(s)>> \o drop_control(Tail(s))
         ELSE drop_control(Tail(s))

\* str.strip(): what is left of the white space once the control characters
\* are gone is the blank.
RECURSIVE lstrip(_)
lstrip(s) == IF s # <<>> /\ Head(s) = " " THEN lstrip(Tail(s)) ELSE s

RECURSIVE rstrip(_)
rstrip(s) ==
    IF s # <<>> /\ s[Len(s)] = " " THEN rstrip(SubSeq(s, 1, Len(s) - 1)) ELSE s

strip(s) == rstrip(lstrip(s))

invalid_chars == {"<", ">", ":", "\"", "/", "\\", "|", "?", "*"}

unnamed_file == <<"u", "n", "n", "a", "m", "e", "d", "_", "f", "i", "l", "e">>

sanitize_filename(name) ==
    LET replaced == [i \in 1..Len(name) |->
                        IF name[i] \in invalid_chars THEN "_" ELSE name[i]]
        kept     == drop_control(replaced)
        stripped == strip(kept)
    IN  IF stripped # <<>> THEN stripped ELSE unnamed_file

\* Path(name).suffix, for a name without a path separator.
suffix(name) ==
    LET dots == {i \in 1..Len(name) : name[i] = "."}
        i    == CHOOSE k \in dots : \A j \in dots : j <= k
    IN  IF dots # {} /\ 1 < i /\ i < Len(name)
        THEN SubSeq(name, i, Len(name))
        ELSE <<>>

TYPE_TO_EXT ==
    <<"d", "o", "c", "x">> :> <<".", "d", "o", "c", "x">> @@
    <<"d", "o", "c">> :> <<".", "d", "o", "c">> @@
    <<"x", "l", "s", "x">> :> <<".", "x", "l", "s", "x">> @@
    <<"x", "l", "s">> :> <<".", "x", "l", "s">> @@
    <<"p", "p", "t", "x">> :> <<".", "p", "p", "t", "x">> @@
    <<"p", "p", "t">> :> <<".", "p", "p", "t">> @@
    <<"p", "d", "f">> :> <<".", "p", "d", "f">> @@
    <<"t", "x", "t">> :> <<".", "t", "x", "t">> @@
    <<"j", "p", "g">> :> <<".", "j", "p", "g">> @@
    <<"j", "p", "e", "g">> :> <<".", "j", "p", "g">> @@
    <<"p", "n", "g">> :> <<".", "p", "n", "g">> @@
    <<"g", "i", "f">> :> <<".", "g", "i", "f">> @@
    <<"b", "m", "p">> :> <<".", "b", "m", "p">> @@
    <<"m", "p", "4">> :> <<".", "m", "p", "4">> @@
    <<"m", "p", "3">> :> <<".", "m", "p", "3">> @@
    <<"z", "i", "p">> :> <<".", "z", "i", "p">> @@
    <<"r", "a", "r">> :> <<".", "r", "a", "r">>

ExportTypes ==
    { <<"d", "o", "c">>, <<"d", "o", "c", "x">>, <<"x", "l", "s", "x">>,
      <<"x", "l", "s">>, <<"p", "p", "t", "x">>, <<"p", "p", "t">>,
      <<"p", "d", "f">>, <<"s", "h", "e", "e", "t">>,
      <<"s", "l", "i", "d", "e">>, <<"b", "i", "t", "a", "b", "l", "e">> }

BinaryTypes ==
    { <<"j", "p", "g">>, <<"j", "p", "e", "g">>, <<"p", "n", "g">>,
      <<"g", "i", "f">>, <<"b", "m", "p">>, <<"m", "p", "4">>,
      <<"m", "p", "3">>, <<"z", "i", "p">>, <<"r", "a", "r">> }

folder == <<"f", "o", "l", "d", "e", "r">>

bin_ext == <<".", "b", "i", "n">>

----------------------------------------------------------------------------
(* process_file: the local file name *)

\* extension: the mapped one, else the suffix of the name, else ".bin".
extension_for(file_type, file_name) ==
    LET mapped == IF lower(file_type) \in DOMAIN TYPE_TO_EXT
                  THEN TYPE_TO_EXT[lower(file_type)]
                  ELSE <<>>
    IN  IF mapped = <<>> /\ file_name # <<>>
        THEN IF suffix(file_name) # <<>> THEN suffix(file_name) ELSE bin_ext
        ELSE mapped

with_extension_always(file_name, extension) == file_name \o extension

\* "Ensure filename has extension"
with_extension(file_name, extension) ==
    IF ~endswith(lower(file_name), lower(extension))
    THEN file_name \o extension
    ELSE file_name

----------------------------------------------------------------------------
(* process_file: the download of one file *)

branch_case_sensitive(file_type) ==
    IF file_type \in ExportTypes THEN "export"
    ELSE IF file_type \in BinaryTypes THEN "binary"
    ELSE "unknown"

\* The if / elif / else on the item's type.
branch_of(file_type) ==
    IF lower(file_type) \in ExportTypes THEN "export"
    ELSE IF file_type \in BinaryTypes THEN "binary"
    ELSE "unknown"

first_step_export_first(branch) ==
    IF branch = "binary" THEN "get_file_download_url" ELSE "create_export_task"

\* The first request of a branch.
first_step(branch) == IF branch = "export" THEN "create_export_task"
                      ELSE "get_file_download_url"

\* The statement after a request that returned.
next_step(step) ==
    CASE step = "create_export_task"    -> "query_export_task"
      [] step = "query_export_task"     -> "download_exported_file"
      [] step = "download_exported_file" -> "return"
      [] step = "get_file_download_url" -> "download_file"
      [] step = "download_file"         -> "return"

on_success_message(step) ==
    IF step = "download_exported_file" THEN "Exported and downloaded to"
    ELSE "Downloaded to"

\* The except clause that catches a request's exception.
on_failure(branch) ==
    CASE branch = "unknown" ->
            [branch |-> "fallback", step |-> "create_export_task",
             msg |-> "Failed to download using download API"]
      [] branch = "fallback" ->
            [branch |-> "fallback", step |-> "return",
             msg |-> "Export task also failed"]
      [] OTHER ->
            [branch |-> branch, step |-> "return",
             msg |-> "Error processing file"]

----------------------------------------------------------------------------
(* The remote drive: what the listings answer *)

MaxItems == 2
MaxDepth == 2
MaxNameLen == 2

docx  == <<"d", "o", "c", "x">>
jpg   == <<"j", "p", "g">>
file  == <<"f", "i", "l", "e">>

\* Types of the items of the walked tree: one of the export set, one of the
\* binary set, one of neither, and a null type.
WalkFileTypes == {docx, jpg, file, None}

\* Names of the items of the walked tree.
WalkName(tok) == IF tok % 2 = 1 THEN <<"a">> ELSE <<"b", "/", "c">>

\* The listings a folder at `depth` can answer: at most MaxItems items,
\* folders only above MaxDepth (the remote tree is finite), fresh tokens.
Listings(depth, tok) ==
    LET types == IF depth < MaxDepth THEN WalkFileTypes \cup {folder}
                 ELSE WalkFileTypes
    IN  UNION { { [k \in 1..n |-> [name  |-> WalkName(tok + k - 1),
                                   type  |-> ts[k],
                                   token |-> tok + k - 1]]
                  : ts \in [1..n -> types] }
                : n \in 0..MaxItems }

SeqsUpTo(S, n) == UNION { [1..k -> S] : k \in 0..n }

NameChars == {"a", "B", ".", "/", " ", "\t"}

ExtraNames ==
    { <<"a", ".", "p", "d", "f">>, <<"a", ".", "P", "D", "F">>,
      <<"p", "d", "f">>, <<"a", ".", "j", "p", "e", "g">>,
      <<"a", ".", "j", "p", "g">>, <<"r", ".", "d", "o", "c", "x", " ">>,
      <<"a", ".", "t", "a", "r", ".", "g", "z">>, <<"a", ".", "B">>,
      <<" ", "a", "/", ".", "B", "\t">> }

\* Names of the item of a single process_file call.
NameInputs == SeqsUpTo(NameChars, MaxNameLen) \cup ExtraNames \cup {None}

\* Types of the item of a single process_file call; <<>> is an absent type.
TypeInputs ==
    { docx, <<"D", "o", "c", "X">>, <<"p", "d", "f">>,
      <<"s", "h", "e", "e", "t">>, <<"S", "H", "E", "E", "T">>,
      jpg, <<"j", "p", "e", "g">>, <<"J", "P", "G">>, <<"t", "x", "t">>,
      file, <<>>, None }

----------------------------------------------------------------------------
(* main and process_file *)

Idle == [token |-> 0, type |-> <<>>, name |-> <<>>, file_name |-> <<>>,
         extension |-> <<>>, branch |-> "none", step |-> "idle",
         out_dir |-> <<>>]

Requests == {"create_export_task", "query_export_task",
             "download_exported_file", "get_file_download_url",
             "download_file"}

\* A process_file call is between two of its requests.
Active == cur.step \in Requests

Top == frames[Len(frames)]

HasNext == frames # <<>> /\ Top.i <= Len(Top.files)

Item == Top.files[Top.i]

\* The for loop hands out its next item.
Taken == [frames EXCEPT ![Len(frames)].i = @ + 1]

Tokens(files) == [k \in 1..Len(files) |-> files[k].token]

Init ==
    /\ pc = "list"
    /\ frames = <<>>
    /\ cur = Idle
    /\ calls = <<>>
    /\ printed = <<>>
    /\ processed = <<>>
    /\ listedFiles = {}
    /\ rootFiles = <<>>
    /\ dirs = {<<>>}
    /\ nextTok = 1
    /\ lf = [state |-> "unused"]
    /\ pages = <<>>
    /\ q = [state |-> "unused"]

\* main: list_files_in_folder(token, folder_token) returns.
MainList ==
    /\ pc = "list"
    /\ \E files \in Listings(0, nextTok) :
        /\ frames' = <<[files |-> files, i |-> 1, dir |-> <<>>]>>
        /\ rootFiles' = Tokens(files)
        /\ listedFiles' = {files[k].token : k \in {j \in 1..Len(files) :
                                                    files[j].type # folder}}
        /\ nextTok' = nextTok + Len(files)
    /\ pc' = "loop"
    /\ UNCHANGED <<cur, calls, printed, processed, dirs, lf, pages, q>>

\* main: list_files_in_folder raises; nothing catches it.
MainListFails ==
    /\ pc = "list"
    /\ pc' = "list_failed"
    /\ UNCHANGED <<frames, cur, calls, printed, processed, listedFiles,
                   rootFiles, dirs, nextTok, lf, pages, q>>

\* process_file on a file: the name, the extension, the branch.
ProcessFileStart ==
    /\ pc = "loop" /\ ~Active /\ HasNext
    /\ Item.name # None /\ Item.type # None /\ Item.type # folder
    /\ LET file_name == sanitize_filename(Item.name)
           extension == extension_for(Item.type, file_name)
           branch    == branch_of(Item.type)
       IN  cur' = [token     |-> Item.token,
                   type      |-> Item.type,
                   name      |-> file_name,
                   file_name |-> with_extension(file_name, extension),
                   extension |-> extension,
                   branch    |-> branch,
                   step      |-> first_step(branch),
                   out_dir   |-> Top.dir]
    /\ frames' = Taken
    /\ processed' = Append(processed, Item.token)
    /\ calls' = <<>>
    /\ printed' = <<"Processing">>
    /\ UNCHANGED <<pc, listedFiles, rootFiles, dirs, nextTok, lf, pages, q>>

\* process_file on an item whose name or type is null: name.replace or
\* file_type.lower raises outside every try of this call. The try of the
\* process_file call of the enclosing folder catches it and that call
\* returns; in main's loop nothing catches it.
ProcessFileRaise ==
    /\ pc = "loop" /\ ~Active /\ HasNext
    /\ Item.name = None \/ (Item.type = None)
    /\ cur' = [Idle EXCEPT !.token = Item.token, !.type = Item.type,
                           !.step = "raised"]
    /\ processed' = Append(processed, Item.token)
    /\ calls' = <<>>
    /\ IF Len(frames) > 1
       THEN /\ frames' = SubSeq(frames, 1, Len(frames) - 1)
            /\ printed' = (IF Item.name # None THEN <<"Processing">> ELSE <<>>)
                              \o <<"Error processing folder">>
            /\ pc' = pc
       ELSE /\ frames' = Taken
            /\ printed' = IF Item.name # None THEN <<"Processing">> ELSE <<>>
            /\ pc' = "crashed"
    /\ UNCHANGED <<listedFiles, rootFiles, dirs, nextTok, lf, pages, q>>

\* process_file on a folder whose listing returns.
ProcessFolder ==
    /\ pc = "loop" /\ ~Active /\ HasNext
    /\ Item.name # None /\ Item.type = folder
    /\ LET sub_dir == Top.dir \o <<sanitize_filename(Item.name)>>
       IN  /\ dirs' = dirs \cup {sub_dir}
           /\ \E sub_files \in Listings(Len(frames), nextTok) :
                /\ frames' = Append(Taken, [files |-> sub_files, i |-> 1,
                                            dir |-> sub_dir])
                /\ listedFiles' = listedFiles \cup
                      {sub_files[k].token : k \in {j \in 1..Len(sub_files) :
                                                 sub_files[j].type # folder}}
                /\ nextTok' = nextTok + Len(sub_files)
    /\ cur' = [Idle EXCEPT !.token = Item.token, !.type = folder,
                           !.step = "folder"]
    /\ processed' = Append(processed, Item.token)
    /\ calls' = <<[op |-> "list_files_in_folder", token |-> Item.token,
                   ok |-> TRUE]>>
    /\ printed' = <<"Processing", "Entering folder">>
    /\ UNCHANGED <<pc, rootFiles, lf, pages, q>>

\* process_file on a folder whose listing raises.
ProcessFolderListFails ==
    /\ pc = "loop" /\ ~Active /\ HasNext
    /\ Item.name # None /\ Item.type = folder
    /\ dirs' = dirs \cup {Top.dir \o <<sanitize_filename(Item.name)>>}
    /\ frames' = Taken
    /\ cur' = [Idle EXCEPT !.token = Item.token, !.type = folder,
                           !.step = "folder"]
    /\ processed' = Append(processed, Item.token)
    /\ calls' = <<[op |-> "list_files_in_folder", token |-> Item.token,
                   ok |-> FALSE]>>
    /\ printed' = <<"Processing", "Entering folder", "Error processing folder">>
    /\ UNCHANGED <<pc, listedFiles, rootFiles, nextTok, lf, pages, q>>

\* One request of process_file, and what follows its return or its exception.
Call(op) ==
    /\ pc = "loop" /\ cur.step = op
    /\ \E ok \in BOOLEAN :
        /\ calls' = Append(calls, [op |-> op, token |-> cur.token, ok |-> ok])
        /\ IF ok
           THEN /\ cur' = [cur EXCEPT !.step = next_step(op)]
                /\ printed' = IF next_step(op) = "return"
                              THEN Append(printed, on_success_message(op))
                              ELSE printed
           ELSE /\ cur' = [cur EXCEPT !.step = on_failure(cur.branch).step,
                                      !.branch = on_failure(cur.branch).branch]
                /\ printed' = Append(printed, on_failure(cur.branch).msg)
    /\ UNCHANGED <<pc, frames, processed, listedFiles, rootFiles, dirs,
                   nextTok, lf, pages, q>>

CreateExportTask == Call("create_export_task")

QueryExportTask == Call("query_export_task")

DownloadExportedFile == Call("download_exported_file")

GetFileDownloadUrl == Call("get_file_download_url")

DownloadFile == Call("download_file")

\* The for loop of a folder is over: its process_file call returns.
FolderReturn ==
    /\ pc = "loop" /\ ~Active /\ ~HasNext
    /\ Len(frames) > 1
    /\ frames' = SubSeq(frames, 1, Len(frames) - 1)
    /\ UNCHANGED <<pc, cur, calls, printed, processed, listedFiles, rootFiles,
                   dirs, nextTok, lf, pages, q>>

\* main's loop is over: "Download complete!"
MainDone ==
    /\ pc = "loop" /\ ~Active /\ ~HasNext
    /\ Len(frames) = 1
    /\ pc' = "done"
    /\ UNCHANGED <<frames, cur, calls, printed, processed, listedFiles,
                   rootFiles, dirs, nextTok, lf, pages, q>>

Next ==
    \/ MainList
    \/ MainListFails
    \/ ProcessFileStart
    \/ ProcessFileRaise
    \/ ProcessFolder
    \/ ProcessFolderListFails
    \/ CreateExportTask
    \/ QueryExportTask
    \/ DownloadExportedFile
    \/ GetFileDownloadUrl
    \/ DownloadFile
    \/ FolderReturn
    \/ MainDone

Spec == Init /\ [][Next]_vars

----------------------------------------------------------------------------
(* process_file on one item *)

InitFile ==
    /\ pc = "loop"
    /\ \E name \in NameInputs, type \in TypeInputs :
         frames = <<[files |-> <<[name |-> name, type |-> type, token |-> 1]>>,
                     i |-> 1, dir |-> <<>>]>>
    /\ cur = Idle
    /\ calls = <<>>
    /\ printed = <<>>
    /\ processed = <<>>
    /\ listedFiles = {1}
    /\ rootFiles = <<1>>
    /\ dirs = {<<>>}
    /\ nextTok = 2
    /\ lf = [state |-> "unused"]
    /\ pages = <<>>
    /\ q = [state |-> "unused"]

NextFile ==
    \/ ProcessFileStart
    \/ ProcessFileRaise
    \/ CreateExportTask
    \/ QueryExportTask
    \/ DownloadExportedFile
    \/ GetFileDownloadUrl
    \/ DownloadFile
    \/ MainDone

SpecFile == InitFile /\ [][NextFile]_vars

----------------------------------------------------------------------------
(* list_files_in_folder *)

MaxPages == 3
MaxPageFiles == 1

\* What the server can answer for one page: fine, an error code in the
\* body, an HTTP error status.
PageAnswers == { [http_ok |-> TRUE, code |-> 0],
                 [http_ok |-> TRUE, code |-> 1],
                 [http_ok |-> FALSE, code |-> 0] }

\* A folder served as a chain of n pages: page k holds its own files, says
\* has_more unless it is the last, and carries the token of page k + 1. The
\* token of page k is k; a request without page_token gets page 1.
Chains(n) ==
    { [k \in 1..n |->
          [http_ok    |-> as[k].http_ok,
           code       |-> as[k].code,
           files      |-> [j \in 1..cs[k] |-> <<k, j>>],
           has_more   |-> k < n,
           page_token |-> IF k < n THEN k + 1 ELSE 0]]
      : as \in [1..n -> PageAnswers], cs \in [1..n -> 0..MaxPageFiles] }

\* requests.get(FILE_LIST_URL, params) for the current page_token
Response == pages[IF lf.page_token = 0 THEN 1 ELSE lf.page_token]

extend_overwrite(files, items) == items

\* files.extend(items)
extend(files, items) == files \o items

InitList ==
    /\ pages \in UNION { Chains(n) : n \in 1..MaxPages }
    /\ lf = [state |-> "loop", files |-> <<>>, page_token |-> 0,
             fetched |-> <<>>]
    /\ pc = "unused"
    /\ frames = <<>>
    /\ cur = Idle
    /\ calls = <<>>
    /\ printed = <<>>
    /\ processed = <<>>
    /\ listedFiles = {}
    /\ rootFiles = <<>>
    /\ dirs = {}
    /\ nextTok = 1
    /\ q = [state |-> "unused"]

Fetched == Append(lf.fetched, IF lf.page_token = 0 THEN 1 ELSE lf.page_token)

\* raise_for_status raises, or the code of the body is not 0.
ListRaise ==
    /\ lf.state = "loop"
    /\ ~Response.http_ok \/ Response.code # 0
    /\ lf' = [lf EXCEPT !.state = "raised", !.fetched = Fetched]
    /\ UNCHANGED <<walkVars, pages, q>>

\* A page with has_more: the loop goes on with its page_token.
ListMore ==
    /\ lf.state = "loop"
    /\ Response.http_ok /\ Response.code = 0
    /\ Response.has_more
    /\ lf' = [lf EXCEPT !.files = extend(lf.files, Response.files),
                        !.page_token = Response.page_token,
                        !.fetched = Fetched]
    /\ UNCHANGED <<walkVars, pages, q>>

\* A page without has_more: break, return files.
ListReturn ==
    /\ lf.state = "loop"
    /\ Response.http_ok /\ Response.code = 0
    /\ ~Response.has_more
    /\ lf' = [lf EXCEPT !.files = extend(lf.files, Response.files),
                        !.state = "returned",
                        !.fetched = Fetched]
    /\ UNCHANGED <<walkVars, pages, q>>

NextList == ListRaise \/ ListMore \/ ListReturn

SpecList == InitList /\ [][NextList]_vars

----------------------------------------------------------------------------
(* query_export_task *)

MaxWait == 3
MaxDelay == 1

poll_interval == 1

JNull == [t |-> "null"]
JInt(n) == [t |-> "int", v |-> n]
JStr(str) == [t |-> "str", v |-> str]

\* The bodies the server can answer a poll with.
PollResponses ==
    [ code        : {0, 1},
      job_status  : {JNull, JInt(0), JInt(1), JInt(2), JInt(3), JStr("0")},
      task_status : {JNull, JStr("done"), JStr("failed"), JStr("processing")},
      file_token  : {JNull, JStr("x1")} ]

keep_polling_inclusive(now, max_wait) == now <= max_wait

\* while time.time() - start_time < max_wait
keep_polling(now, max_wait) == now < max_wait

query_outcome_legacy_first(resp) ==
    IF resp.code # 0 THEN "raise_query"
    ELSE IF resp.task_status = JStr("done") THEN "return"
    ELSE IF resp.task_status = JStr("failed") THEN "raise_export_legacy"
    ELSE IF resp.job_status = JInt(0) THEN "return"
    ELSE IF resp.job_status = JInt(2) THEN "raise_export"
    ELSE "sleep"

\* What one iteration does with the body of the response.
query_outcome(resp) ==
    IF resp.code # 0 THEN "raise_query"
    ELSE IF resp.job_status = JInt(0) THEN "return"
    ELSE IF resp.job_status = JInt(2) THEN "raise_export"
    ELSE IF resp.job_status = JNull
         THEN IF resp.task_status = JStr("done") THEN "return"
              ELSE IF resp.task_status = JStr("failed")
                   THEN "raise_export_legacy"
                   ELSE "sleep"
    ELSE "sleep"

error_message(outcome) ==
    CASE outcome = "raise_query"         -> "Failed to query export task"
      [] outcome = "raise_export"        -> "Export task failed: job_error_msg"
      [] outcome = "raise_export_legacy" -> "Export task failed"

NoResponse == [code |-> 0, job_status |-> JNull, task_status |-> JNull,
               file_token |-> JNull]

\* `now` is time.time() - start_time, in seconds.
InitPoll ==
    /\ \E max_wait \in 0..MaxWait :
         q = [state |-> "loop", max_wait |-> max_wait, now |-> 0,
              polls |-> 0, poll_at |-> <<>>, slept |-> <<>>,
              resp |-> NoResponse, value |-> JNull, error |-> ""]
    /\ lf = [state |-> "unused"]
    /\ pages = <<>>
    /\ pc = "unused"
    /\ frames = <<>>
    /\ cur = Idle
    /\ calls = <<>>
    /\ printed = <<>>
    /\ processed = <<>>
    /\ listedFiles = {}
    /\ rootFiles = <<>>
    /\ dirs = {}
    /\ nextTok = 1

\* The request of one iteration, answered after `delay` seconds.
Polled(resp, delay) ==
    [q EXCEPT !.polls = @ + 1, !.poll_at = Append(@, q.now),
              !.resp = resp, !.now = @ + delay]

\* An iteration that returns the export file token.
PollReturns ==
    /\ q.state = "loop" /\ keep_polling(q.now, q.max_wait)
    /\ \E resp \in PollResponses, delay \in 0..MaxDelay :
        /\ query_outcome(resp) = "return"
        /\ q' = [Polled(resp, delay) EXCEPT !.state = "returned",
                                            !.value = resp.file_token]
    /\ UNCHANGED <<walkVars, lf, pages>>

\* An iteration that raises.
PollRaises ==
    /\ q.state = "loop" /\ keep_polling(q.now, q.max_wait)
    /\ \E resp \in PollResponses, delay \in 0..MaxDelay :
        /\ query_outcome(resp) \in {"raise_query", "raise_export",
                                    "raise_export_legacy"}
        /\ q' = [Polled(resp, delay) EXCEPT
                    !.state = "raised",
                    !.error = error_message(query_outcome(resp))]
    /\ UNCHANGED <<walkVars, lf, pages>>

\* An iteration that falls through to time.sleep(1).
PollSleeps ==
    /\ q.state = "loop" /\ keep_polling(q.now, q.max_wait)
    /\ \E resp \in PollResponses, delay \in 0..MaxDelay :
        /\ query_outcome(resp) = "sleep"
        /\ q' = [Polled(resp, delay) EXCEPT
                    !.now = @ + poll_interval,
                    !.slept = Append(@, poll_interval)]
    /\ UNCHANGED <<walkVars, lf, pages>>

\* The while condition fails: raise Exception("Export task timed out").
PollTimeout ==
    /\ q.state = "loop" /\ ~keep_polling(q.now, q.max_wait)
    /\ q' = [q EXCEPT !.state = "raised", !.error = "Export task timed out"]
    /\ UNCHANGED <<walkVars, lf, pages>>

NextPoll == PollReturns \/ PollRaises \/ PollSleeps \/ PollTimeout

SpecPoll == InitPoll /\ [][NextPoll]_vars

----------------------------------------------------------------------------
(* Properties *)

Ops(c) == [k \in 1..Len(c) |-> c[k].op]

ExportSeq == <<"create_export_task", "query_export_task",
               "download_exported_file">>

DirectSeq == <<"get_file_download_url", "download_file">>

InFile == cur.step \in Requests \cup {"return"}

\* The requests of the call so far are those of `chain`, in its order, each
\* one issued after the one before it returned; the call goes on with the
\* next one of the chain, and returns only after the last one or after one
\* that raised.
Follows(chain) ==
    /\ Len(calls) <= Len(chain)
    /\ \A k \in 1..Len(calls) : calls[k].op = chain[k]
    /\ \A k \in 1..Len(calls) : k < Len(calls) => calls[k].ok
    /\ IF cur.step = "return"
       THEN calls # <<>> /\ (Len(calls) = Len(chain) \/ ~calls[Len(calls)].ok)
       ELSE /\ calls = <<>> \/ calls[Len(calls)].ok
            /\ cur.step = chain[Len(calls) + 1]

\* C1: process_file on an item whose type, lower-cased, is in the export set
\* issues create_export_task, query_export_task, download_exported_file in
\* that order (each after the one before returned) and no direct download;
\* on an item whose type is in the binary set it issues
\* get_file_download_url, download_file and no export request.
C1_BranchOnType ==
    InFile =>
        /\ lower(cur.type) \in ExportTypes => Follows(ExportSeq)
        /\ cur.type \in BinaryTypes => Follows(DirectSeq)

C1_Witness ==
    /\ cur.step = "return"
    /\ cur.type = <<"S", "H", "E", "E", "T">>
    /\ Ops(calls) = ExportSeq
    /\ \A k \in 1..Len(calls) : calls[k].ok

\* C2: no exception escapes process_file: main's loop is never left by an
\* exception, and when main is done process_file was called on every item
\* of the root listing, in listing order.
C2_ErrorsPrintedRunContinues ==
    /\ pc # "crashed"
    /\ pc = "done" =>
          SelectSeq(processed, LAMBDA t : \E k \in 1..Len(rootFiles) :
                                              rootFiles[k] = t) = rootFiles

AllFiles(ps) ==
    LET RECURSIVE cat(_)
        cat(k) == IF k > Len(ps) THEN <<>> ELSE ps[k].files \o cat(k + 1)
    IN  cat(1)

PageOk(p) == p.http_ok /\ p.code = 0

\* C3: list_files_in_folder returns the files of every page of the chain,
\* in page order, having fetched each page once; it never returns when a
\* page answers an error, it raises at that page.
C3_ListReturnsAllPages ==
    lf.state # "unused" =>
        /\ lf.fetched = [k \in 1..Len(lf.fetched) |-> k]
        /\ lf.state = "returned" =>
              /\ lf.files = AllFiles(pages)
              /\ Len(lf.fetched) = Len(pages)
        /\ (\E k \in 1..Len(pages) : ~PageOk(pages[k])) => lf.state # "returned"
        /\ lf.state = "raised" => ~PageOk(pages[Len(lf.fetched)])
        /\ lf.state = "loop" =>
              \A k \in 1..Len(lf.fetched) : PageOk(pages[k])

C3_Witness ==
    /\ lf.state = "returned"
    /\ Len(pages) >= 3
    /\ Len(lf.files) >= 3

\* C4: the poll loop of query_export_task sleeps one second after every
\* poll that neither returned nor raised, starts a poll only while less
\* than max_wait seconds have elapsed, so polls at most max_wait times, and
\* once max_wait seconds have elapsed it only raises "Export task timed
\* out", without a value.
C4_PollLoopBounded ==
    q.state # "unused" =>
        /\ \A k \in 1..Len(q.slept) : q.slept[k] = 1
        /\ Len(q.slept) = (IF q.state = "loop" \/ q.error = "Export task timed out"
                           THEN q.polls ELSE q.polls - 1)
        /\ \A k \in 1..Len(q.poll_at) : q.poll_at[k] < q.max_wait
        /\ q.polls <= q.max_wait
        /\ q.error = "Export task timed out" =>
              /\ q.state = "raised"
              /\ q.now >= q.max_wait
              /\ q.value = JNull
        /\ (q.state = "loop" /\ q.now >= q.max_wait) =>
              /\ ENABLED PollTimeout
              /\ ~ENABLED PollSleeps
              /\ ~ENABLED PollReturns
              /\ ~ENABLED PollRaises

C4_Witness ==
    /\ q.error = "Export task timed out"
    /\ q.max_wait = 3
    /\ q.polls = 3
    /\ q.resp.job_status = JInt(1)

\* C6: after a poll, query_export_task has returned the file_token of the
\* response exactly when the response has code 0 and job_status 0, or code 0,
\* no job_status and task_status "done"; it has raised exactly when the code
\* is not 0, or job_status is 2, or job_status is absent and task_status is
\* "failed"; after every other response it has slept and is back at the
\* loop test.
C6_PollOutcomes ==
    (q.state # "unused" /\ q.polls > 0 /\ q.error # "Export task timed out") =>
        LET r       == q.resp
            success == r.code = 0 /\
                       (r.job_status = JInt(0) \/
                        (r.job_status = JNull /\ r.task_status = JStr("done")))
            failure == r.code # 0 \/ r.job_status = JInt(2) \/
                       (r.job_status = JNull /\ r.task_status = JStr("failed"))
        IN  /\ q.state = "returned" <=> success
            /\ q.state = "returned" => q.value = r.file_token
            /\ q.state = "raised" <=> failure
            /\ q.state = "loop" => Len(q.slept) = q.polls
            /\ q.state # "returned" => q.value = JNull

C6_Witness ==
    /\ q.state = "returned"
    /\ q.polls >= 2
    /\ q.resp.job_status = JNull
    /\ q.resp.task_status = JStr("done")
    /\ q.value = JStr("x1")

Count(seq, x) == Cardinality({k \in 1..Len(seq) : seq[k] = x})

\* C5: the walk mirrors the remote tree: a folder gets the sub-directory
\* output_dir/<sanitized name>, its children are processed with it as their
\* output directory, process_file issues nothing but the listing for the
\* folder itself, and when main is done every non-folder item a listing
\* returned has been processed exactly once.
C5_WalkMirrorsTree ==
    /\ cur.type = folder => \A k \in 1..Len(calls) :
                                calls[k].op = "list_files_in_folder"
    /\ \A d \in 2..Len(frames) :
          /\ frames[d].dir \in dirs
          /\ frames[d].dir = frames[d - 1].dir \o
                <<sanitize_filename(frames[d - 1].files[frames[d - 1].i - 1].name)>>
    /\ Active => cur.out_dir = Top.dir
    /\ pc = "done" => \A t \in listedFiles : Count(processed, t) = 1

ExportOps == {"create_export_task", "query_export_task",
              "download_exported_file"}

DirectFailed(k) == calls[k].op \in {"get_file_download_url", "download_file"}
                   /\ ~calls[k].ok

\* C7: on an item whose type is in neither set, process_file starts with the
\* direct download; an export request is issued only after a direct request
\* has failed, and create_export_task at most once; after a direct download
\* that succeeded it returns without an export request; after a failed
\* direct download it goes on with the export task, and when that fails too
\* it prints "Export task also failed" and returns.
C7_UnknownTypeFallback ==
    (InFile /\ lower(cur.type) \notin ExportTypes /\ cur.type \notin BinaryTypes) =>
        LET n == Len(calls) IN
        /\ IF n = 0 THEN cur.step = "get_file_download_url"
                    ELSE calls[1].op = "get_file_download_url"
        /\ \A k \in 1..n : calls[k].op \in ExportOps =>
              \E j \in 1..(k - 1) : DirectFailed(j)
        /\ \A op \in ExportOps : Count(Ops(calls), op) <= 1
        /\ \A op \in {"get_file_download_url", "download_file"} :
              Count(Ops(calls), op) <= 1
        /\ (\E k \in 1..n : calls[k].op = "download_file" /\ calls[k].ok) =>
              /\ cur.step = "return"
              /\ \A k \in 1..n : calls[k].op \notin ExportOps
              /\ printed[Len(printed)] = "Downloaded to"
        /\ (\E j \in 1..n : DirectFailed(j)) =>
              /\ "create_export_task" \in {calls[k].op : k \in 1..n}
                    \/ cur.step = "create_export_task"
              /\ (\E k \in 1..n : calls[k].op \in ExportOps /\ ~calls[k].ok) =>
                    /\ cur.step = "return"
                    /\ printed[Len(printed)] = "Export task also failed"
        /\ pc # "crashed"

C7_Witness ==
    /\ cur.step = "return"
    /\ cur.type = <<"J", "P", "G">>
    /\ Ops(calls) = <<"get_file_download_url", "download_file",
                      "create_export_task", "query_export_task">>
    /\ printed[Len(printed)] = "Export task also failed"

\* C8: the local file name ends, case-insensitively, with the extension of
\* the item; the extension is TYPE_TO_EXT[type.lower()] when the type is
\* mapped, else the suffix of the sanitized name, else ".bin"; the file name
\* is the sanitized name, with the extension appended once unless the name
\* already ends with it.
C8_LocalFileName ==
    InFile =>
        LET name     == sanitize_filename(frames[1].files[1].name)
            expected == IF lower(cur.type) \in DOMAIN TYPE_TO_EXT
                        THEN TYPE_TO_EXT[lower(cur.type)]
                        ELSE IF suffix(name) # <<>> THEN suffix(name)
                        ELSE <<".", "b", "i", "n">>
        IN  /\ cur.extension = expected
            /\ endswith(lower(cur.file_name), lower(expected))
            /\ cur.file_name \in {name, name \o expected}
            /\ endswith(lower(name), lower(expected)) => cur.file_name = name

C8_Witness ==
    /\ cur.step = "return"
    /\ cur.type = <<"p", "d", "f">>
    /\ frames[1].files[1].name = <<"a", ".", "P", "D", "F">>
    /\ cur.file_name = <<"a", ".", "P", "D", "F">>

====
